---- MODULE Spec2Model ----
(***************************************************************************)
(* Bulk-update pipeline of the SEO administration tool: CSV validation and *)
(* parsing (app/services/csv_handler.py), the JSON record store with its   *)
(* temp-file/verify/backup/replace write (app/services/storage.py), the    *)
(* audit recorder (app/services/audit.py) and the upload route that        *)
(* composes them (app/api/automation.py).                                  *)
(*                                                                         *)
(* Requests are asyncio tasks of one process: a task runs until it awaits  *)
(* file I/O or a held lock, so one action is the code between two awaits.  *)
(* Strings the code inspects character by character (slugs) are sequences  *)
(* of one-character strings; titles and descriptions are opaque strings.   *)
(***************************************************************************)
EXTENDS Integers, Sequences, FiniteSets, TLC

(***************************************************************************)
(* Bounds of the model.                                                    *)
(***************************************************************************)
\* upload calls started in one behaviour
MaxUploads == 2
\* data rows of a file handed to the CSV handler on its own
MaxCsvRows == 3
\* largest limit of an audit query
MaxLimit == 2
\* direct calls of log_change in one behaviour
MaxCalls == 1
\* injected file-I/O failures in one behaviour
MaxFaults == 1

(***************************************************************************)
(* Program constants.  The two capacities are 10000 in the source and are  *)
(* scaled down so that the cases "one more than the capacity" are reached. *)
(***************************************************************************)
\* JSONStorage.MAX_AUDIT_RECORDS (10000 in the source)
MAX_AUDIT_RECORDS == 3
\* CSVHandler.MAX_ROWS (10000 in the source)
MAX_ROWS == 2
\* CSVHandler.MAX_FIELD_LENGTH
MAX_FIELD_LENGTH == 1000

\* the request tasks that may be in flight together
Procs == {1, 2}

None == "None"

(***************************************************************************)
(* Character-level string functions used on slugs.                        *)
(***************************************************************************)
\* str.lower() on one character
LowerChar(c) ==
    CASE c = "A" -> "a"
      [] c = "B" -> "b"
      [] c = "C" -> "c"
      [] OTHER   -> c

\* str.lower()
Lower(s) == [k \in 1..Len(s) |-> LowerChar(s[k])]

RECURSIVE LStrip(_)
LStrip(s) == IF s # <<>> /\ Head(s) = " " THEN LStrip(Tail(s)) ELSE s

RECURSIVE RStrip(_)
RStrip(s) ==
    IF s # <<>> /\ s[Len(s)] = " " THEN RStrip(SubSeq(s, 1, Len(s) - 1)) ELSE s

\* str.strip()
Strip(s) == RStrip(LStrip(s))

\* the character class [a-zA-Z0-9/_-] of SLUG_PATTERN
SlugChars == {"a", "b", "c", "A", "B", "C", "0", "1", "/", "_", "-"}

\* SLUG_PATTERN.match(slug): ^/[a-zA-Z0-9/_-]*$
SLUG_PATTERN(s) ==
    /\ s # <<>>
    /\ s[1] = "/"
    /\ \A k \in 1..Len(s) : s[k] \in SlugChars

\* "xy" in s, for a two-character needle
Contains2(s, x, y) == \E k \in 1..(Len(s) - 1) : s[k] = x /\ s[k + 1] = y

\* s.startswith("/")
StartsWithSlash(s) == s # <<>> /\ s[1] = "/"

(***************************************************************************)
(* Uploaded files.  A file is its name's extension, the kind of its bytes  *)
(* ("empty": no bytes, "csv": decodable text with a header line), whether  *)
(* its size exceeds MAX_FILE_SIZE, its header names (lower-cased) and its  *)
(* data rows.  A row is the dict csv.DictReader yields: a value for every  *)
(* header (None for a cell the line lacks) and, when the line has more     *)
(* cells than headers, the surplus under the key None.                     *)
(***************************************************************************)
REQUIRED_HEADERS == {"slug", "title", "meta_description"}
OPTIONAL_HEADERS == {"updated_at", "keywords", "canonical_url"}

\* len(value) of the opaque field values the model uses
FieldLen(v) ==
    CASE v = ""      -> 0
      [] v = "Hello" -> 5
      [] v = "World" -> 5
      [] v = "Bye"   -> 3
      [] v = " Hello " -> 7
      [] v = "T201"  -> 201
      [] v = "K1001" -> 1001
      [] OTHER       -> 1

\* value.strip() of the opaque field values the model uses
StripField(v) ==
    CASE v = " Hello " -> "Hello"
      [] v = " "       -> ""
      [] OTHER         -> v

Row(slug, title, meta) == [slug |-> slug, title |-> title, meta_description |-> meta]

\* the row with one more key
RowWith(row, key, value) ==
    [k \in DOMAIN row \cup {key} |-> IF k = key THEN value ELSE row[k]]

CsvFile(rows) ==
    [csv_name |-> TRUE, kind |-> "csv", too_large |-> FALSE,
     headers |-> REQUIRED_HEADERS, rows |-> rows]

Sa == <<"/", "a">>
SA == <<"/", "A">>
Sb == <<"/", "b">>
Sc == <<"/", "c">>

\* files that pass validation and parsing
FileA    == CsvFile(<<Row(Sa, "Hello", "World")>>)
FileA2   == CsvFile(<<Row(Sa, "Bye", "World")>>)
FileAB   == CsvFile(<<Row(SA, "Hello", "World"), Row(Sb, "", "")>>)
FileB    == CsvFile(<<Row(Sb, "Hello", "")>>)
FileBA   == CsvFile(<<Row(Sb, "Bye", ""), Row(Sa, "Bye", "World")>>)
FileXtra == [CsvFile(<<RowWith(Row(Sa, "Hello", "World"), "notes", "Bye")>>)
                EXCEPT !.headers = REQUIRED_HEADERS \cup {"notes"}]
\* files the upload rejects
FileTxt    == [FileA EXCEPT !.csv_name = FALSE]
FileEmpty  == [csv_name |-> TRUE, kind |-> "empty", too_large |-> FALSE,
               headers |-> {}, rows |-> <<>>]
FileNoMeta == [FileA EXCEPT !.headers = {"slug", "title"}]
FileMany   == CsvFile(<<Row(Sa, "Hello", "World"), Row(Sb, "Hello", "World"),
                        Row(Sc, "Hello", "World")>>)
FileDup    == CsvFile(<<Row(Sa, "Hello", "World"), Row(SA, "Bye", "World")>>)
FileBad    == CsvFile(<<Row(<<"a">>, "Hello", "World")>>)
FileHdr    == CsvFile(<<>>)

Files == {FileA, FileA2, FileAB, FileB, FileBA, FileXtra, FileTxt, FileEmpty,
          FileNoMeta, FileMany, FileDup, FileBad, FileHdr}

\* the files of uploads that overlap another upload
ConcFiles == {FileA2, FileB, FileTxt}

(***************************************************************************)
(* CSVHandler.validate_csv_file and _validate_rows.  Problems are the      *)
(* message texts without their row numbers.                                *)
(***************************************************************************)
WarnUnexpected == "Warning: Unexpected columns will be ignored"

\* mutant: a warning counts as an error
IsWarningNever(e) == FALSE

\* e.startswith("Warning:")
IsWarning(e) == e = WarnUnexpected

\* `if k` / `if value` on a key or a value
Truthy(k) == k # None /\ k # ""

\* len(value) of the value under a key of the normalised row
ValueLen(row, key) == IF key = "slug" THEN Len(row.slug) ELSE FieldLen(row[key])

\* None.strip(): _validate_rows raises AttributeError on a row whose slug is
\* there but whose title or meta_description cell is missing
RowRaises(row) ==
    /\ Strip(row.slug) # <<>>
    /\ row.title = None \/ row.meta_description = None

\* the problems one row adds, given the slugs seen so far
RowErrors(row, slugs_seen) ==
    LET slug == Strip(row.slug) IN
    IF slug = <<>> THEN <<"Slug is required but empty">>
    ELSE
        (IF ~SLUG_PATTERN(slug) THEN <<"Invalid slug format">> ELSE <<>>)
     \o (IF Contains2(slug, ".", ".") \/ Contains2(slug, "/", "/")
            THEN <<"Slug cannot contain '..' or '//'">> ELSE <<>>)
     \o (IF Lower(slug) \in slugs_seen THEN <<"Duplicate slug">> ELSE <<>>)
     \o (IF FieldLen(StripField(row.title)) > 200
            THEN <<"Title too long">> ELSE <<>>)
     \o (IF FieldLen(StripField(row.meta_description)) > 300
            THEN <<"Meta description too long">> ELSE <<>>)
     \o (IF \E key \in DOMAIN row :
                /\ Truthy(key)
                /\ Truthy(row[key])
                /\ ValueLen(row, key) > MAX_FIELD_LENGTH
            THEN <<"Field exceeds maximum length">> ELSE <<>>)

\* the loop of _validate_rows from row row_num on: the errors, and whether
\* an exception left the loop
RECURSIVE ValidateFrom(_, _, _)
ValidateFrom(rows, row_num, slugs_seen) ==
    IF row_num > Len(rows) THEN [raised |-> FALSE, errors |-> <<>>]
    ELSE IF row_num > MAX_ROWS
        THEN [raised |-> FALSE, errors |-> <<"Too many rows">>]
    ELSE LET row  == rows[row_num]
             slug == Strip(row.slug)
             seen == IF slug = <<>> THEN slugs_seen
                     ELSE slugs_seen \cup {Lower(slug)}
             rest == ValidateFrom(rows, row_num + 1, seen)
         IN  IF RowRaises(row) THEN [raised |-> TRUE, errors |-> <<>>]
             ELSE [rest EXCEPT !.errors = RowErrors(row, slugs_seen) \o @]

_validate_rows(rows) == ValidateFrom(rows, 1, {})

\* the sequence without its warnings
RECURSIVE Critical(_)
Critical(errors) ==
    IF errors = <<>> THEN <<>>
    ELSE IF IsWarning(Head(errors)) THEN Critical(Tail(errors))
    ELSE <<Head(errors)>> \o Critical(Tail(errors))

\* (is_valid, errors)
validate_csv_file(f) ==
    IF f.kind = "empty" THEN [ok |-> FALSE, errors |-> <<"File is empty">>]
    ELSE IF f.too_large THEN [ok |-> FALSE, errors |-> <<"File too large">>]
    ELSE IF f.kind = "binary"
        THEN [ok |-> FALSE, errors |-> <<"File must be UTF-8 encoded">>]
    ELSE IF f.kind = "blank"
        THEN [ok |-> FALSE, errors |-> <<"File contains no data">>]
    ELSE IF f.headers = {} THEN [ok |-> FALSE, errors |-> <<"No headers found in CSV file">>]
    ELSE IF REQUIRED_HEADERS \ f.headers # {}
        THEN [ok |-> FALSE, errors |-> <<"Missing required columns">>]
    ELSE LET warnings == IF f.headers \ (REQUIRED_HEADERS \cup OPTIONAL_HEADERS) # {}
                         THEN <<WarnUnexpected>> ELSE <<>>
             row_errors == _validate_rows(f.rows)
             errors   == row_errors.errors \o warnings
         IN  IF row_errors.raised
               THEN \* except Exception: the error is returned, not raised
                    [ok |-> FALSE, errors |-> <<"Unexpected validation error">>]
               ELSE [ok |-> Critical(errors) = <<>>, errors |-> errors]

(***************************************************************************)
(* PageSchema and CSVHandler.parse_csv.                                    *)
(***************************************************************************)
\* PageSchema.validate_slug: the normalised slug
validate_slug(v) == Lower(Strip(v))

\* PageSchema(...) raises no validation error
PageSchemaOk(slug, title, meta) ==
    /\ Len(slug) >= 1 /\ Len(slug) <= 500
    /\ StartsWithSlash(slug)
    /\ ~Contains2(slug, ".", ".") /\ ~Contains2(slug, "/", "/")
    /\ (title # None => FieldLen(title) <= 200)
    /\ (meta # None => FieldLen(meta) <= 300)

PageSchema(slug, title, meta) ==
    [slug |-> validate_slug(slug), title |-> title, meta_description |-> meta]

\* `x or None`
OrNone(x) == IF x = "" THEN None ELSE x

\* mutant: no row is taken for a repetition
IsDuplicateNever(slug, slugs_seen) == FALSE

\* slug in slugs_seen
IsDuplicate(slug, slugs_seen) == slug \in slugs_seen

\* the loop of parse_csv from row row_num on: pages and errors
RECURSIVE ParseFrom(_, _, _)
ParseFrom(rows, row_num, slugs_seen) ==
    IF row_num > Len(rows) THEN [pages |-> <<>>, errors |-> <<>>]
    ELSE
      LET row   == rows[row_num]
          raw   == Strip(row.slug)
          slug  == Lower(raw)
          title == OrNone(StripField(row.title))
          meta  == OrNone(StripField(row.meta_description))
          skip  == raw # <<>> /\ IsDuplicate(slug, slugs_seen)
          rest  == ParseFrom(rows, row_num + 1,
                             IF raw = <<>> \/ skip THEN slugs_seen
                             ELSE slugs_seen \cup {slug})
      IN  IF raw = <<>>
            THEN [rest EXCEPT !.errors = <<"Missing slug">> \o @]
          ELSE IF skip THEN rest
          ELSE IF ~PageSchemaOk(slug, title, meta)
            THEN [rest EXCEPT !.errors = <<"Row rejected by PageSchema">> \o @]
          ELSE [rest EXCEPT !.pages = <<PageSchema(slug, title, meta)>> \o @]

\* mutant: the records of the rows that passed are returned with the errors
parse_csv_partial(f) ==
    LET r == ParseFrom(f.rows, 1, {}) IN
    [ok |-> r.pages # <<>>, pages |-> r.pages, message |-> "", errors |-> r.errors]

\* mutant: an input without records is returned as an empty list
parse_csv_lenient(f) ==
    LET r == ParseFrom(f.rows, 1, {}) IN
    IF f.kind = "binary"
        THEN [ok |-> FALSE, pages |-> <<>>,
              message |-> "Failed to parse CSV file", errors |-> <<>>]
    ELSE IF r.errors # <<>>
        THEN [ok |-> FALSE, pages |-> <<>>,
              message |-> "CSV parsing completed with errors", errors |-> r.errors]
    ELSE [ok |-> TRUE, pages |-> r.pages, message |-> "", errors |-> <<>>]

\* parse_csv: ok with the pages, or the CSVException's message and errors
parse_csv(f) ==
    LET r == ParseFrom(f.rows, 1, {}) IN
    IF f.kind = "binary"
        THEN \* content.decode raises: the outer except clause
             [ok |-> FALSE, pages |-> <<>>,
              message |-> "Failed to parse CSV file", errors |-> <<>>]
    ELSE IF r.errors # <<>>
        THEN [ok |-> FALSE, pages |-> <<>>,
              message |-> "CSV parsing completed with errors", errors |-> r.errors]
    ELSE IF r.pages = <<>>
        THEN [ok |-> FALSE, pages |-> <<>>,
              message |-> "No valid pages found in CSV file", errors |-> <<>>]
    ELSE [ok |-> TRUE, pages |-> r.pages, message |-> "", errors |-> <<>>]

(***************************************************************************)
(* The record store's files (Settings.pages_file, Settings.audit_file and  *)
(* the temporary and backup paths _write_json derives from them).          *)
(***************************************************************************)
pages_path == "app/data/pages.json"
audit_path == "app/data/audit_log.json"

\* path.with_suffix(".tmp")
TempPath(path) ==
    IF path = pages_path THEN "app/data/pages.tmp" ELSE "app/data/audit_log.tmp"

\* path.with_suffix(path.suffix + BACKUP_SUFFIX)
BackupPath(path) ==
    IF path = pages_path THEN "app/data/pages.json.backup"
    ELSE "app/data/audit_log.json.backup"

RealPaths == {pages_path, audit_path}
Paths == RealPaths \cup {TempPath(q) : q \in RealPaths}
                   \cup {BackupPath(q) : q \in RealPaths}

\* "pages" if "pages" in str(path) else "audit"
LockKey(path) == IF path = pages_path THEN "pages" ELSE "audit"

\* a file is absent, or holds a JSON list (kind "list"), or bytes of another
\* kind: none ("empty"), white space ("blank"), text that is not JSON
\* ("garbage"), a JSON value that is not a list ("object"), more than 100 MB
\* ("huge")
Absent == [exists |-> FALSE, kind |-> "absent", data |-> <<>>]
Content(data) == [exists |-> TRUE, kind |-> "list", data |-> data]
Bytes(kind) == [exists |-> TRUE, kind |-> kind, data |-> <<>>]

VARIABLES
    fs,           \* path -> the file there: absent, or its JSON list
    write_locks,  \* JSONStorage._write_locks: key -> holding task, 0 when free
    req,          \* task -> the locals of its upload_csv call
    next_id,      \* the audit ids uuid4 has handed out so far
    uploads,      \* upload calls started
    faults,       \* file-I/O failures injected
    csv,          \* a call of the CSV handler made on its own: input, results
    query,        \* a call of get_recent_logs: arguments and returned list
    export,       \* records serialized by generate_csv and parsed back
    _initialized, \* JSONStorage._initialized
    store_call    \* the last call of initialize or _read_json made on its own

vars == <<fs, write_locks, req, next_id, uploads, faults, csv, query, export,
          _initialized, store_call>>

NoResp == [kind |-> "none", success |-> FALSE, message |-> "", errors |-> <<>>,
           processed |-> 0, added |-> 0, updated |-> 0, unchanged |-> 0]

\* raise HTTPException(400, detail)
Http400(detail) == [NoResp EXCEPT !.kind = "http400", !.message = detail]

\* _create_htmx_response(success=False, message, errors)
HtmxFailure(message, errors) ==
    [NoResp EXCEPT !.kind = "htmx", !.message = message, !.errors = errors]

\* _create_htmx_response(success=True, processed, added, updated, unchanged)
HtmxSuccess(processed, added, updated, unchanged) ==
    [kind |-> "htmx", success |-> TRUE, message |-> "Successfully processed",
     errors |-> <<>>, processed |-> processed, added |-> added,
     updated |-> updated, unchanged |-> unchanged]

NoAudit == [id |-> 0, slug |-> <<>>, old_title |-> None,
            old_meta_description |-> None, new_title |-> None,
            new_meta_description |-> None, changed_by |-> ""]

Idle == [pc |-> "idle", file |-> FileEmpty, username |-> "", new_pages |-> <<>>,
         existing |-> <<>>, i |-> 0, added |-> 0, updated |-> 0, unchanged |-> 0,
         audit |-> NoAudit, logs |-> <<>>, path |-> "", data |-> <<>>,
         calls |-> 0, resp |-> NoResp, stages |-> <<>>, backup |-> "none"]

\* no CSV handler call, no audit query
NoCsv == [pc |-> "none", file |-> FileEmpty,
          valid |-> [ok |-> FALSE, errors |-> <<>>],
          parsed |-> [ok |-> FALSE, pages |-> <<>>, message |-> "", errors |-> <<>>]]
NoQuery == [pc |-> "none", limit |-> 0, username |-> None, slug |-> <<>>,
            fetched |-> <<>>, result |-> <<>>]
\* no export, no store call
NoExport == [pc |-> "none", pages |-> <<>>, now |-> 0,
             generated |-> [ok |-> FALSE, file |-> FileEmpty, message |-> ""],
             parsed |-> [ok |-> FALSE, pages |-> <<>>, message |-> "", errors |-> <<>>]]
NoCall == [op |-> "none", n |-> 0, path |-> "", ok |-> TRUE, data |-> <<>>,
           raised |-> "", message |-> ""]

Init ==
    /\ fs = [q \in Paths |-> IF q \in RealPaths THEN Content(<<>>) ELSE Absent]
    /\ write_locks = [k \in {"pages", "audit"} |-> 0]
    /\ req = [p \in Procs |-> Idle]
    /\ next_id = 0
    /\ uploads = 0
    /\ faults = 0
    /\ csv = NoCsv
    /\ query = NoQuery
    /\ export = NoExport
    /\ _initialized = TRUE
    /\ store_call = NoCall

\* the authenticated identity require_auth hands to the route
Username(p) == "Admin"

(***************************************************************************)
(* upload_csv up to its first storage call: the extension and empty-file   *)
(* checks, validate_csv_file and parse_csv.                                *)
(***************************************************************************)
\* mutant: the extension is not checked
EndsWithCsvAny(f) == TRUE

\* file.filename.lower().endswith(".csv")
EndsWithCsv(f) == f.csv_name

Received(f) ==
    IF ~EndsWithCsv(f)
        THEN [ok |-> FALSE, resp |-> Http400("Invalid file type. Only CSV files are allowed."),
              stages |-> <<"Received", "Rejected">>, pages |-> <<>>]
    ELSE IF f.kind = "empty"
        THEN [ok |-> FALSE, resp |-> Http400("Empty file uploaded"),
              stages |-> <<"Received", "Rejected">>, pages |-> <<>>]
    ELSE LET v == validate_csv_file(f) IN
      IF ~v.ok
        THEN [ok |-> FALSE, resp |-> HtmxFailure("CSV validation failed", v.errors),
              stages |-> <<"Received", "Rejected">>, pages |-> <<>>]
      ELSE LET r == parse_csv(f) IN
        IF ~r.ok
          THEN [ok |-> FALSE, resp |-> HtmxFailure(r.message, r.errors),
                stages |-> <<"Received", "Validated", "Rejected">>, pages |-> <<>>]
          ELSE [ok |-> TRUE, resp |-> NoResp,
                stages |-> <<"Received", "Validated", "Parsed">>, pages |-> r.pages]

Upload(p, f) ==
    /\ req[p].pc \in {"idle", "done"}
    \* a request is served by the first task that is free
    /\ \A q \in Procs : q < p => req[q].pc \notin {"idle", "done"}
    /\ uploads < MaxUploads
    /\ \A q \in Procs \ {p} :
         req[q].pc \notin {"idle", "done"}
            => f \in ConcFiles /\ req[q].file \in ConcFiles
    /\ uploads' = uploads + 1
    /\ LET r == Received(f) IN
       req' = [req EXCEPT ![p] =
                 [Idle EXCEPT !.pc = IF r.ok THEN "load" ELSE "done",
                           !.file = f, !.username = Username(p),
                           !.new_pages = r.pages,
                           !.resp = r.resp, !.stages = r.stages]]
    /\ UNCHANGED <<export, _initialized, store_call, csv, query, fs, write_locks, next_id, faults>>

\* mutant: the exception is swallowed and the loop goes on
FailedIgnored(p, message) ==
    [req[p] EXCEPT !.pc = "diff", !.i = @ + 1]

\* the except clauses of upload_csv: a failed response, whatever was raised
Failed(p, message) ==
    [Idle EXCEPT !.pc = "done", !.file = req[p].file,
                 !.username = req[p].username,
                 !.resp = HtmxFailure(message, <<message>>),
                 !.stages = req[p].stages \o <<"Rejected">>]

\* get_all_pages: the records read, each validated as a PageSchema
get_all_pages(data) ==
    [k \in 1..Len(data) |->
        PageSchema(data[k].slug, data[k].title, data[k].meta_description)]

\* storage.get_all_pages(), then the counters are reset
LoadPages(p) ==
    /\ req[p].pc = "load"
    /\ req' = [req EXCEPT ![p] =
                 [@ EXCEPT !.pc = "diff",
                           !.existing = get_all_pages(fs[pages_path].data),
                           !.i = 1, !.added = 0, !.updated = 0, !.unchanged = 0]]
    /\ UNCHANGED <<export, _initialized, store_call, csv, query, fs, write_locks, next_id, uploads, faults>>

LoadPagesFail(p) ==
    /\ req[p].pc = "load"
    /\ faults < MaxFaults
    /\ faults' = faults + 1
    /\ req' = [req EXCEPT ![p] = Failed(p, "Failed to read pages.json")]
    /\ UNCHANGED <<export, _initialized, store_call, csv, query, fs, write_locks, next_id, uploads>>

(***************************************************************************)
(* The diff loop of upload_csv and AuditService.log_change.                *)
(***************************************************************************)
\* mutant: no slug is ever found in the map
InMapNever(existing, slug) == FALSE

\* page.slug in existing_pages_map
InMap(existing, slug) == \E k \in 1..Len(existing) : existing[k].slug = slug

\* existing_pages_map[slug]: the dict comprehension keeps the last record
MapGet(existing, slug) ==
    existing[CHOOSE k \in 1..Len(existing) :
                /\ existing[k].slug = slug
                /\ \A j \in (k + 1)..Len(existing) : existing[j].slug # slug]

\* mutant: the records are compared whole, updated_at included
DiffersAlways(old_page, page) == TRUE

\* old_page.title != page.title or old_page.meta_description != ...
Differs(old_page, page) ==
    \/ old_page.title # page.title
    \/ old_page.meta_description # page.meta_description

\* the rows of upload_csv's loop for which log_change is called
Logged(existing, page) ==
    IF InMap(existing, page.slug) THEN Differs(MapGet(existing, page.slug), page)
    ELSE TRUE

\* mutant: the old and the new record change places
AuditLogSchemaSwapped(id, slug, has_old, old_page, new_page, username) ==
    [id |-> id, slug |-> slug,
     old_title |-> new_page.title,
     old_meta_description |-> new_page.meta_description,
     new_title |-> IF has_old THEN old_page.title ELSE None,
     new_meta_description |-> IF has_old THEN old_page.meta_description ELSE None,
     changed_by |-> username]

\* the AuditLogSchema that log_change builds
AuditLogSchema(id, slug, has_old, old_page, new_page, username) ==
    [id |-> id, slug |-> slug,
     old_title |-> IF has_old THEN old_page.title ELSE None,
     old_meta_description |-> IF has_old THEN old_page.meta_description ELSE None,
     new_title |-> new_page.title,
     new_meta_description |-> new_page.meta_description,
     changed_by |-> username]

\* one iteration of `for page in new_pages`, up to log_change's await
DiffRow(p) ==
    LET r        == req[p]
        page     == r.new_pages[r.i]
        has_old  == InMap(r.existing, page.slug)
        old_page == IF has_old THEN MapGet(r.existing, page.slug) ELSE page
    IN
    /\ r.pc = "diff"
    /\ r.i <= Len(r.new_pages)
    /\ IF Logged(r.existing, page)
         THEN /\ next_id' = next_id + 1
              /\ req' = [req EXCEPT ![p] =
                   [@ EXCEPT !.pc = "a_read", !.calls = @ + 1,
                             !.added = IF has_old THEN @ ELSE @ + 1,
                             !.updated = IF has_old THEN @ + 1 ELSE @,
                             !.audit = AuditLogSchema(next_id + 1, page.slug, has_old,
                                                      old_page, page, r.username)]]
         ELSE /\ next_id' = next_id
              /\ req' = [req EXCEPT ![p] =
                   [@ EXCEPT !.unchanged = @ + 1, !.i = @ + 1]]
    /\ UNCHANGED <<export, _initialized, store_call, csv, query, fs, write_locks, uploads, faults>>

\* mutant: the first record is skipped
SavedPagesDropFirst(pages) == Tail(pages)

\* save_pages: [page.model_dump(mode="json") for page in pages]
SavedPages(pages) == pages

\* mutant: the uploaded records are merged into the loaded ones
DiffDoneMerge(p) ==
    LET r == req[p] IN
    /\ r.pc = "diff"
    /\ r.i > Len(r.new_pages)
    /\ req' = [req EXCEPT ![p] =
                 [@ EXCEPT !.pc = "w_lock", !.path = pages_path,
                           !.data = r.existing \o r.new_pages,
                           !.stages = @ \o <<"DiffedLogged">>]]
    /\ UNCHANGED <<export, _initialized, store_call, csv, query, fs, write_locks, next_id, uploads, faults>>

\* mutant: the loop is left one record early
DiffDoneEarly(p) ==
    LET r == req[p] IN
    /\ r.pc = "diff"
    /\ r.i >= Len(r.new_pages)
    /\ req' = [req EXCEPT ![p] =
                 [@ EXCEPT !.pc = "w_lock", !.path = pages_path,
                           !.data = r.new_pages,
                           !.stages = @ \o <<"DiffedLogged">>]]
    /\ UNCHANGED <<export, _initialized, store_call, csv, query, fs, write_locks, next_id, uploads, faults>>

\* the loop is over: storage.save_pages(new_pages) calls _write_json
DiffDone(p) ==
    LET r == req[p] IN
    /\ r.pc = "diff"
    /\ r.i > Len(r.new_pages)
    /\ req' = [req EXCEPT ![p] =
                 [@ EXCEPT !.pc = "w_lock", !.path = pages_path,
                           !.data = SavedPages(r.new_pages),
                           !.stages = @ \o <<"DiffedLogged">>]]
    /\ UNCHANGED <<export, _initialized, store_call, csv, query, fs, write_locks, next_id, uploads, faults>>

(***************************************************************************)
(* JSONStorage.append_audit_log up to its _write_json call.                *)
(***************************************************************************)
\* mutant: logs[:MAX_AUDIT_RECORDS], the newest entries are dropped
RotateHead(logs) ==
    IF Len(logs) > MAX_AUDIT_RECORDS
        THEN SubSeq(logs, 1, MAX_AUDIT_RECORDS)
        ELSE logs

\* logs[-MAX_AUDIT_RECORDS:] when len(logs) > MAX_AUDIT_RECORDS
Rotate(logs) ==
    IF Len(logs) > MAX_AUDIT_RECORDS
        THEN SubSeq(logs, Len(logs) - MAX_AUDIT_RECORDS + 1, Len(logs))
        ELSE logs

\* mutant: the new entry is inserted at the front
AppendedFront(logs, log) ==
    IF Len(logs) + 1 > MAX_AUDIT_RECORDS
        THEN <<log>> \o SubSeq(logs, 1, MAX_AUDIT_RECORDS - 1)
        ELSE <<log>> \o logs

\* the list append_audit_log writes back, from the list it read
Appended(logs, log) == Rotate(Append(logs, log))

ReadAudit(p) ==
    /\ req[p].pc = "a_read"
    /\ req' = [req EXCEPT ![p] =
                 [@ EXCEPT !.pc = "w_lock", !.path = audit_path,
                           !.logs = fs[audit_path].data,
                           !.data = Appended(fs[audit_path].data, req[p].audit)]]
    /\ UNCHANGED <<export, _initialized, store_call, csv, query, fs, write_locks, next_id, uploads, faults>>

ReadAuditFail(p) ==
    /\ req[p].pc = "a_read"
    /\ faults < MaxFaults
    /\ faults' = faults + 1
    /\ req' = [req EXCEPT ![p] = Failed(p, "Failed to write audit log")]
    /\ UNCHANGED <<export, _initialized, store_call, csv, query, fs, write_locks, next_id, uploads>>

(***************************************************************************)
(* JSONStorage._write_json: lock, temporary file, verification, backup,    *)
(* replace.                                                                *)
(***************************************************************************)
\* mutant: the write section is entered without the lock
CanAcquireAlways(p, key) == TRUE

\* `async with lock`: the task proceeds when the lock is free
CanAcquire(p, key) == write_locks[key] = 0

AcquireLock(p) ==
    /\ req[p].pc = "w_lock"
    /\ CanAcquire(p, LockKey(req[p].path))
    /\ write_locks' = [write_locks EXCEPT ![LockKey(req[p].path)] = p]
    /\ req' = [req EXCEPT ![p].pc = "w_temp"]
    /\ UNCHANGED <<export, _initialized, store_call, csv, query, fs, next_id, uploads, faults>>

\* mutant: the data is written over the real file
WriteInPlace(path) == path

\* the file the serialized data is first written to
WriteTarget(path) == TempPath(path)

\* aiofiles.open(temp_path, "w") and f.write(json_content)
WriteTemp(p) ==
    /\ req[p].pc = "w_temp"
    /\ fs' = [fs EXCEPT ![WriteTarget(req[p].path)] = Content(req[p].data)]
    /\ req' = [req EXCEPT ![p].pc = "w_verify"]
    /\ UNCHANGED <<export, _initialized, store_call, csv, query, write_locks, next_id, uploads, faults>>

\* the temporary file is read back and parsed
VerifyTemp(p) ==
    /\ req[p].pc = "w_verify"
    /\ fs[TempPath(req[p].path)].exists
    /\ req' = [req EXCEPT ![p].pc = "w_backup"]
    /\ UNCHANGED <<export, _initialized, store_call, csv, query, fs, write_locks, next_id, uploads, faults>>

\* mutant: the new content is copied to the backup
BackupSourceTemp(path) == TempPath(path)

\* the file the backup step copies
BackupSource(path) == path

\* create_backup and path.exists(): the current file is copied to the backup
Backup(p) ==
    LET path == req[p].path IN
    /\ req[p].pc = "w_backup"
    /\ fs' = IF fs[path].exists
               THEN [fs EXCEPT ![BackupPath(path)] = fs[BackupSource(path)]]
               ELSE fs
    /\ req' = [req EXCEPT ![p].pc = "w_replace",
                          ![p].backup = IF fs[path].exists THEN "done" ELSE "none"]
    /\ UNCHANGED <<export, _initialized, store_call, csv, query, write_locks, next_id, uploads, faults>>

\* the backup step raises: logged, the write continues; the old backup is
\* still there or already unlinked
BackupFail(p) ==
    LET path == req[p].path IN
    /\ req[p].pc = "w_backup"
    /\ fs[path].exists
    /\ faults < MaxFaults
    /\ faults' = faults + 1
    /\ \E unlinked \in BOOLEAN :
         fs' = IF unlinked THEN [fs EXCEPT ![BackupPath(path)] = Absent] ELSE fs
    /\ req' = [req EXCEPT ![p].pc = "w_replace", ![p].backup = "failed"]
    /\ UNCHANGED <<export, _initialized, store_call, csv, query, write_locks, next_id, uploads>>

\* what the caller of _write_json does when it returns
Returned(p) ==
    LET r == req[p] IN
    IF r.path = audit_path
      THEN \* log_change returns its id; the loop goes on
           [r EXCEPT !.pc = "diff", !.i = @ + 1, !.logs = <<>>, !.data = <<>>,
                     !.audit = NoAudit, !.backup = "none"]
      ELSE \* save_pages returns; upload_csv builds the success response
           [Idle EXCEPT !.pc = "done", !.file = r.file,
                        !.username = r.username, !.calls = r.calls,
                        !.resp = HtmxSuccess(Len(r.new_pages), r.added, r.updated,
                                             r.unchanged),
                        !.stages = r.stages \o <<"Persisted", "Acknowledged">>]

\* temp_path.replace(path), the lock is released, _write_json returns
Replace(p) ==
    LET path == req[p].path IN
    /\ req[p].pc = "w_replace"
    /\ fs' = [fs EXCEPT ![path] = fs[TempPath(path)], ![TempPath(path)] = Absent]
    /\ write_locks' = [write_locks EXCEPT ![LockKey(path)] = 0]
    /\ req' = [req EXCEPT ![p] = Returned(p)]
    /\ UNCHANGED <<export, _initialized, store_call, csv, query, next_id, uploads, faults>>

\* mutant: the failed write is compensated, the audit file is emptied
CleanedUpAndCompensated(files, path) ==
    [files EXCEPT ![TempPath(path)] = Absent, ![audit_path] = Content(<<>>)]

\* the except clauses of _write_json: the temporary file is unlinked
CleanedUp(files, path) == [files EXCEPT ![TempPath(path)] = Absent]

\* a step of the write raises: the temporary file is unlinked, the lock is
\* released, StorageException reaches upload_csv (from log_change as an
\* AuditException) and is answered with a failed response
WriteFail(p) ==
    LET path == req[p].path IN
    /\ req[p].pc \in {"w_temp", "w_verify", "w_replace"}
    /\ faults < MaxFaults
    /\ faults' = faults + 1
    /\ fs' = CleanedUp(fs, path)
    /\ write_locks' = [write_locks EXCEPT ![LockKey(path)] = 0]
    /\ req' = [req EXCEPT ![p] =
                 Failed(p, IF path = audit_path THEN "Failed to write audit log"
                           ELSE "Failed to write pages.json")]
    /\ UNCHANGED <<export, _initialized, store_call, csv, query, next_id, uploads>>

Next ==
    \E p \in Procs :
        \/ \E f \in Files : Upload(p, f)
        \/ LoadPages(p)
        \/ LoadPagesFail(p)
        \/ DiffRow(p)
        \/ DiffDone(p)
        \/ ReadAudit(p)
        \/ ReadAuditFail(p)
        \/ AcquireLock(p)
        \/ WriteTemp(p)
        \/ VerifyTemp(p)
        \/ Backup(p)
        \/ BackupFail(p)
        \/ Replace(p)
        \/ WriteFail(p)

Spec == Init /\ [][Next]_vars

(***************************************************************************)
(* The CSV handler called on its own: validate_csv_file and parse_csv      *)
(* applied to every content built from a small set of rows.                *)
(***************************************************************************)
\* c repeated n times
RECURSIVE Repeat(_, _)
Repeat(c, n) ==
    IF n = 0 THEN <<>>
    ELSE IF n % 2 = 0 THEN LET half == Repeat(c, n \div 2) IN half \o half
    ELSE Append(Repeat(c, n - 1), c)

\* a slug of 501 characters, one more than PageSchema allows
SLong == <<"/">> \o Repeat("a", 500)

CsvSlugs == {Sa, SA, Sb, <<>>, <<"a">>, <<"/", "/", "a">>, <<" ", "/", "a">>,
             <<"/", ".", ".">>, SLong}

CsvRows ==
    {Row(slug, "Hello", "World") : slug \in CsvSlugs}
      \cup {Row(Sa, "Bye", ""), Row(SA, "Bye", "World"),
            \* a title longer than 200 characters
            Row(Sa, "T201", "World"),
            \* a line that ends after the title
            Row(Sb, "Hello", None),
            \* a keywords cell of 1001 characters
            RowWith(Row(Sb, "Hello", "World"), "keywords", "K1001"),
            \* a fourth cell of 1001 characters under three headers
            RowWith(Row(Sa, "Hello", "World"), None, "K1001")}

RECURSIVE RowSeqs(_)
RowSeqs(n) ==
    IF n = 0 THEN {<<>>}
    ELSE LET shorter == RowSeqs(n - 1) IN
         shorter \cup {Append(rows, row) : rows \in shorter, row \in CsvRows}

\* reader.fieldnames of a file with these rows
HeadersOf(rows) ==
    REQUIRED_HEADERS
      \cup UNION {{k \in DOMAIN rows[j] : Truthy(k)} : j \in 1..Len(rows)}

CsvInputs ==
    {[CsvFile(rows) EXCEPT !.headers = HeadersOf(rows)] : rows \in RowSeqs(MaxCsvRows)}
      \cup {FileEmpty, FileNoMeta, FileXtra,
            [FileA EXCEPT !.kind = "binary"],
            [FileA EXCEPT !.kind = "blank", !.headers = {}, !.rows = <<>>],
            [FileA EXCEPT !.too_large = TRUE],
            [FileA EXCEPT !.headers = {}, !.rows = <<>>]}

InitCsv ==
    /\ fs = [q \in Paths |-> IF q \in RealPaths THEN Content(<<>>) ELSE Absent]
    /\ write_locks = [k \in {"pages", "audit"} |-> 0]
    /\ req = [p \in Procs |-> Idle]
    /\ next_id = 0
    /\ uploads = 0
    /\ faults = 0
    /\ query = NoQuery
    /\ export = NoExport
    /\ _initialized = TRUE
    /\ store_call = NoCall
    /\ \E f \in CsvInputs : csv = [NoCsv EXCEPT !.pc = "content", !.file = f]

\* csv_handler.validate_csv_file(content)
Validate ==
    /\ csv.pc = "content"
    /\ csv' = [csv EXCEPT !.pc = "validated", !.valid = validate_csv_file(csv.file)]
    /\ UNCHANGED <<export, _initialized, store_call, fs, write_locks, req, next_id, uploads, faults, query>>

\* csv_handler.parse_csv(content)
Parse ==
    /\ csv.pc \in {"content", "validated"}
    /\ csv' = [csv EXCEPT !.pc = "parsed", !.parsed = parse_csv(csv.file)]
    /\ UNCHANGED <<export, _initialized, store_call, fs, write_locks, req, next_id, uploads, faults, query>>

NextCsv == Validate \/ Parse

SpecCsv == InitCsv /\ [][NextCsv]_vars

(***************************************************************************)
(* Audit queries: JSONStorage.get_audit_logs and                           *)
(* AuditService.get_recent_logs, applied to audit files left by earlier    *)
(* runs.  The identity is Settings.admin_username, which may differ from   *)
(* one run to the next, so a file can hold entries of several identities.  *)
(***************************************************************************)
Identities == {"Admin", "Editor"}

PageA  == PageSchema(Sa, "Hello", "World")
PageA2 == PageSchema(Sa, "Bye", "World")
PageA0 == PageSchema(Sa, None, None)

\* the entry of a page created at slug by username
CreatedEntry(id, slug, username) ==
    AuditLogSchema(id, slug, FALSE, PageA, PageA, username)

EntryKinds == Identities \X {Sa, Sb}

RECURSIVE KindSeqs(_)
KindSeqs(n) ==
    IF n = 0 THEN {<<>>}
    ELSE LET shorter == KindSeqs(n - 1) IN
         shorter \cup {Append(ks, kind) : ks \in shorter, kind \in EntryKinds}

\* the audit files of up to MAX_AUDIT_RECORDS entries, ids in append order
AuditFiles ==
    {[k \in 1..Len(ks) |-> CreatedEntry(k, ks[k][2], ks[k][1])] :
        ks \in KindSeqs(MAX_AUDIT_RECORDS)}

Reverse(seq) == [k \in 1..Len(seq) |-> seq[Len(seq) + 1 - k]]

\* logs[:limit]
HeadSlice(logs, limit) ==
    LET n    == Len(logs)
        stop == IF limit >= 0 THEN (IF limit < n THEN limit ELSE n)
                ELSE (IF n + limit > 0 THEN n + limit ELSE 0)
    IN  SubSeq(logs, 1, stop)

\* mutant: the oldest entries are taken
FirstSlice(data, limit) == HeadSlice(data, limit)

\* data[-limit:]
LastSlice(data, limit) ==
    LET n     == Len(data)
        start == IF limit > 0 THEN (IF n - limit > 0 THEN n - limit ELSE 0)
                 ELSE (IF -limit < n THEN -limit ELSE n)
    IN  SubSeq(data, start + 1, n)

\* JSONStorage.get_audit_logs(limit, slug) on the list read from the file
get_audit_logs(data, limit, slug) ==
    LET by_slug == IF slug # <<>>
                     THEN SelectSeq(data, LAMBDA log : log.slug = slug)
                     ELSE data
    IN  Reverse(LastSlice(by_slug, limit))

\* AuditService.get_recent_logs(limit, username, slug)
get_recent_logs(data, limit, username, slug) ==
    LET logs    == get_audit_logs(data, limit * 2, slug)
        by_user == IF Truthy(username)
                     THEN SelectSeq(logs, LAMBDA log : log.changed_by = username)
                     ELSE logs
    IN  HeadSlice(by_user, limit)

InitQuery ==
    /\ \E logs \in AuditFiles :
          /\ fs = [q \in Paths |->
                     IF q = audit_path THEN Content(logs)
                     ELSE IF q = pages_path THEN Content(<<>>) ELSE Absent]
          /\ next_id = Len(logs)
    /\ write_locks = [k \in {"pages", "audit"} |-> 0]
    /\ req = [p \in Procs |-> Idle]
    /\ uploads = 0
    /\ faults = 0
    /\ csv = NoCsv
    /\ query = NoQuery
    /\ export = NoExport
    /\ _initialized = TRUE
    /\ store_call = NoCall

\* a call of get_recent_logs whose read of the audit file succeeds; fetched
\* is what its storage.get_audit_logs(limit * 2, slug) call returned
Query(limit, username, slug) ==
    /\ query' = [pc |-> "returned", limit |-> limit, username |-> username,
                 slug |-> slug,
                 fetched |-> get_audit_logs(fs[audit_path].data, limit * 2,
                                            slug),
                 result |-> get_recent_logs(fs[audit_path].data, limit,
                                            username, slug)]
    /\ UNCHANGED <<export, _initialized, store_call, fs, write_locks, req, next_id, uploads, faults, csv>>

\* the read raises: get_recent_logs logs the error and returns []
QueryFail(limit, username, slug) ==
    /\ faults < MaxFaults
    /\ faults' = faults + 1
    /\ query' = [pc |-> "failed", limit |-> limit, username |-> username,
                 slug |-> slug, fetched |-> <<>>, result |-> <<>>]
    /\ UNCHANGED <<export, _initialized, store_call, fs, write_locks, req, next_id, uploads, csv>>

NextQuery ==
    \E limit \in (-1)..MaxLimit, username \in Identities \cup {None},
       slug \in {<<>>, Sa, Sb} :
        \/ Query(limit, username, slug)
        \/ QueryFail(limit, username, slug)

SpecQuery == InitQuery /\ [][NextQuery]_vars

(***************************************************************************)
(* AuditService.log_change called on its own, with any old and new record: *)
(* the caller's locals are the old record (if any), the new record and the *)
(* identity; pc = "diff" is the caller after log_change has returned.      *)
(***************************************************************************)
LogPages == {PageA, PageA2, PageA0}

InitLog ==
    /\ \E n \in 0..MAX_AUDIT_RECORDS :
          /\ fs = [q \in Paths |->
                     IF q = audit_path
                       THEN Content([k \in 1..n |-> CreatedEntry(k, Sb, "Admin")])
                     ELSE IF q = pages_path THEN Content(<<>>) ELSE Absent]
          /\ next_id = n
    /\ write_locks = [k \in {"pages", "audit"} |-> 0]
    /\ req = [p \in Procs |-> Idle]
    /\ uploads = 0
    /\ faults = 0
    /\ csv = NoCsv
    /\ query = NoQuery
    /\ export = NoExport
    /\ _initialized = TRUE
    /\ store_call = NoCall

\* log_change(slug, old_page, new_page, username) up to its await
LogChange(p, has_old, old_page, new_page, username) ==
    /\ req[p].pc \in {"idle", "diff"}
    /\ uploads < MaxCalls
    /\ uploads' = uploads + 1
    /\ next_id' = next_id + 1
    /\ req' = [req EXCEPT ![p] =
                 [Idle EXCEPT !.pc = "a_read", !.username = username,
                              !.existing = IF has_old THEN <<old_page>> ELSE <<>>,
                              !.new_pages = <<new_page>>, !.i = 1, !.calls = 1,
                              !.audit = AuditLogSchema(next_id + 1, new_page.slug,
                                                       has_old, old_page, new_page,
                                                       username)]]
    /\ UNCHANGED <<export, _initialized, store_call, fs, write_locks, faults, csv, query>>

NextLog ==
    \E p \in {1} :
        \/ \E has_old \in BOOLEAN, old_page \in LogPages, new_page \in LogPages,
              username \in Identities :
                /\ ~has_old => old_page = new_page
                /\ LogChange(p, has_old, old_page, new_page, username)
        \/ ReadAudit(p)
        \/ AcquireLock(p)
        \/ WriteTemp(p)
        \/ VerifyTemp(p)
        \/ Backup(p)
        \/ Replace(p)

SpecLog == InitLog /\ [][NextLog]_vars

(***************************************************************************)
(* CSVHandler.generate_csv, and parse_csv applied to what it returned.     *)
(* Timestamps are ticks of a clock coarser than the microsecond that       *)
(* datetime.isoformat() keeps, so timestamps that are equal up to that     *)
(* precision are equal ticks.                                              *)
(***************************************************************************)
\* the last tick of the clock
MaxClock == 2
\* records of one export
MaxRecords == 2

\* updated_at.isoformat()
isoformat(t) ==
    <<"1970-01-01T00:00:00", "1970-01-01T00:00:01", "1970-01-01T00:00:02",
      "1970-01-01T00:00:03", "1970-01-01T00:00:04">>[t + 1]

\* PageSchema(slug, title, meta_description, updated_at)
StampedPage(slug, title, meta, t) ==
    [slug |-> validate_slug(slug), title |-> title, meta_description |-> meta,
     updated_at |-> t]

ExportPages ==
    {StampedPage(slug, title, meta, t) :
        slug \in {Sa, Sb}, title \in {"Hello", " Hello ", "", None},
        meta \in {"World", None}, t \in {0, 1}}

RECURSIVE PageSeqs(_)
PageSeqs(n) ==
    IF n = 0 THEN {<<>>}
    ELSE LET shorter == PageSeqs(n - 1) IN
         shorter \cup {Append(pages, page) : pages \in shorter, page \in ExportPages}

\* `x or ""`
OrEmpty(x) == IF x = None THEN "" ELSE x

\* generate_csv: the content csv.DictWriter writes, as csv.DictReader reads
\* it back (quoting keeps every cell's text), or the CSVException's message
generate_csv(pages) ==
    IF pages = <<>>
      THEN [ok |-> FALSE, file |-> FileEmpty, message |-> "No pages to export"]
      ELSE [ok |-> TRUE, message |-> "",
            file |-> [csv_name |-> TRUE, kind |-> "csv", too_large |-> FALSE,
                      headers |-> {"slug", "title", "meta_description", "updated_at"},
                      rows |-> [k \in 1..Len(pages) |->
                                  [slug |-> pages[k].slug,
                                   title |-> OrEmpty(pages[k].title),
                                   meta_description |->
                                       OrEmpty(pages[k].meta_description),
                                   updated_at |-> isoformat(pages[k].updated_at)]]]]

\* parse_csv while datetime.utcnow() returns `now`: every record it builds
\* gets updated_at = now, the updated_at column is not read
parse_csv_at(f, now) ==
    LET r == parse_csv(f) IN
    [r EXCEPT !.pages = [k \in 1..Len(r.pages) |->
                           StampedPage(r.pages[k].slug, r.pages[k].title,
                                       r.pages[k].meta_description, now)]]

\* the latest updated_at of the records
RECURSIVE LastStamp(_)
LastStamp(pages) ==
    IF pages = <<>> THEN 0
    ELSE LET rest == LastStamp(Tail(pages)) IN
         IF Head(pages).updated_at > rest THEN Head(pages).updated_at ELSE rest

\* the records were stored before the export: the clock is not before them
InitCodec ==
    /\ fs = [q \in Paths |-> IF q \in RealPaths THEN Content(<<>>) ELSE Absent]
    /\ write_locks = [k \in {"pages", "audit"} |-> 0]
    /\ req = [p \in Procs |-> Idle]
    /\ next_id = 0
    /\ uploads = 0
    /\ faults = 0
    /\ csv = NoCsv
    /\ query = NoQuery
    /\ _initialized = TRUE
    /\ store_call = NoCall
    /\ \E pages \in PageSeqs(MaxRecords) :
         export = [NoExport EXCEPT !.pc = "records", !.pages = pages,
                                   !.now = LastStamp(pages)]

\* time passes
Tick ==
    /\ export.pc \in {"records", "generated"}
    /\ export.now < MaxClock
    /\ export' = [export EXCEPT !.now = @ + 1]
    /\ UNCHANGED <<fs, write_locks, req, next_id, uploads, faults, csv, query,
                   _initialized, store_call>>

\* csv_handler.generate_csv(pages)
Generate ==
    /\ export.pc = "records"
    /\ export' = [export EXCEPT !.pc = "generated",
                                !.generated = generate_csv(export.pages)]
    /\ UNCHANGED <<fs, write_locks, req, next_id, uploads, faults, csv, query,
                   _initialized, store_call>>

\* csv_handler.parse_csv(csv_bytes) on the generated content
ParseBack ==
    /\ export.pc = "generated"
    /\ export.generated.ok
    /\ export' = [export EXCEPT !.pc = "parsed",
                                !.parsed = parse_csv_at(export.generated.file,
                                                        export.now)]
    /\ UNCHANGED <<fs, write_locks, req, next_id, uploads, faults, csv, query,
                   _initialized, store_call>>

NextCodec == Tick \/ Generate \/ ParseBack

SpecCodec == InitCodec /\ [][NextCodec]_vars

(***************************************************************************)
(* The record store at start-up: JSONStorage.initialize and _read_json on  *)
(* files left by earlier runs or damaged since.  initialize runs in the    *)
(* application's lifespan, before any request is served, so it is one      *)
(* step.                                                                   *)
(***************************************************************************)
\* initialize and _read_json calls in one behaviour
MaxStoreCalls == 2

\* a JSON object that PageSchema rejects (its slug has no leading "/")
BadPage == [slug |-> <<"a">>, title |-> "Hello", meta_description |-> "World"]
\* a JSON object that AuditLogSchema rejects (it has no changed_by)
BadEntry == [AuditLogSchema(1, Sa, FALSE, PageA, PageA, "Admin")
                EXCEPT !.changed_by = None]

PageContents ==
    {Absent, Bytes("empty"), Bytes("blank"), Bytes("garbage"), Bytes("object"),
     Bytes("huge"), Content(<<>>), Content(<<PageA>>), Content(<<BadPage>>)}

AuditContents ==
    {Absent, Bytes("empty"), Bytes("garbage"), Bytes("object"), Content(<<>>),
     Content(<<AuditLogSchema(1, Sa, FALSE, PageA, PageA, "Admin")>>),
     Content(<<BadEntry>>)}

\* `return data`
Returns(data) == [ok |-> TRUE, data |-> data, raised |-> "", message |-> ""]

\* raise StorageException(message)
StorageException(message) ==
    [ok |-> FALSE, data |-> <<>>, raised |-> "StorageException", message |-> message]

\* the record of a call: what was called, on which path, how it ended
Called(op, path, n, r) ==
    [op |-> op, n |-> n, path |-> path, ok |-> r.ok, data |-> r.data,
     raised |-> r.raised, message |-> r.message]

\* mutant: whatever the file holds is taken for a list
ReadUnchecked(file) == Returns(file.data)

\* _read_json on the file at a path
_read_json(file) ==
    IF ~file.exists THEN Returns(<<>>)
    ELSE IF file.kind = "empty" THEN Returns(<<>>)
    ELSE IF file.kind = "huge"
        THEN \* raised inside the try, wrapped by `except Exception`
             StorageException("Failed to read")
    ELSE IF file.kind = "blank" THEN Returns(<<>>)
    ELSE IF file.kind = "garbage" THEN StorageException("Invalid JSON")
    ELSE IF file.kind = "object"
        THEN \* "Invalid JSON structure: expected list", wrapped likewise
             StorageException("Failed to read")
    ELSE Returns(file.data)

\* TypeAdapter(List[PageSchema]).validate_python(data) raises nothing
PagesValid(data) ==
    \A k \in 1..Len(data) :
        PageSchemaOk(data[k].slug, data[k].title, data[k].meta_description)

\* TypeAdapter(List[AuditLogSchema]).validate_python(data) raises nothing
AuditValid(data) == \A k \in 1..Len(data) : data[k].changed_by # None

\* json.loads(existing_content) of the backup step raises nothing
ValidJson(file) == file.kind \in {"list", "object"}

\* _write_json(path, data) run to its end: the backup of a valid current
\* file, the replace
Written(files, path, data) ==
    [files EXCEPT ![path] = Content(data),
                  ![TempPath(path)] = Absent,
                  ![BackupPath(path)] =
                       IF files[path].exists /\ ValidJson(files[path])
                         THEN files[path] ELSE @]

\* path.rename(backup_path)
Renamed(files, path) ==
    [files EXCEPT ![BackupPath(path)] = files[path], ![path] = Absent]

\* the try block initialize runs on an existing file raises nothing:
\* _read_json, and for the page file the validation of the records
Usable(files, path) ==
    LET r == _read_json(files[path]) IN
    /\ r.ok
    /\ path = pages_path => PagesValid(r.data)

\* initialize has to write the file at path
NeedsWrite(files, path) == ~files[path].exists \/ ~Usable(files, path)

\* the part of initialize for one file
Recovered(files, path) ==
    IF ~files[path].exists THEN Written(files, path, <<>>)
    ELSE IF Usable(files, path) THEN files
    ELSE Written(Renamed(files, path), path, <<>>)

InitStore ==
    /\ \E pages \in PageContents, audit \in AuditContents,
          backup \in {Absent, Content(<<PageA2>>)} :
         fs = [q \in Paths |->
                 IF q = pages_path THEN pages
                 ELSE IF q = audit_path THEN audit
                 ELSE IF q = BackupPath(pages_path) THEN backup
                 ELSE Absent]
    /\ write_locks = [k \in {"pages", "audit"} |-> 0]
    /\ req = [p \in Procs |-> Idle]
    /\ next_id = 0
    /\ uploads = 0
    /\ faults = 0
    /\ csv = NoCsv
    /\ query = NoQuery
    /\ export = NoExport
    /\ _initialized = FALSE
    /\ store_call = NoCall

\* storage.initialize() that raises nothing
Initialize ==
    /\ store_call.n < MaxStoreCalls
    /\ fs' = IF _initialized THEN fs
             ELSE Recovered(Recovered(fs, pages_path), audit_path)
    /\ _initialized' = TRUE
    /\ store_call' = Called("initialize", "", store_call.n + 1, Returns(<<>>))
    /\ UNCHANGED <<write_locks, req, next_id, uploads, faults, csv, query, export>>

\* the _write_json call of initialize for the file at path raises: the file
\* is absent (renamed if it was there), the files after it are not looked at
InitializeFail(path) ==
    LET files == IF path = pages_path THEN fs ELSE Recovered(fs, pages_path) IN
    /\ store_call.n < MaxStoreCalls
    /\ ~_initialized
    /\ faults < MaxFaults
    /\ NeedsWrite(files, path)
    /\ faults' = faults + 1
    /\ fs' = IF files[path].exists THEN Renamed(files, path) ELSE files
    /\ store_call' = Called("initialize", "", store_call.n + 1,
                            StorageException("Failed to initialize storage"))
    /\ UNCHANGED <<write_locks, req, next_id, uploads, csv, query, export,
                   _initialized>>

\* storage._read_json(path)
ReadJson(path) ==
    /\ store_call.n < MaxStoreCalls
    /\ store_call' = Called("_read_json", path, store_call.n + 1,
                            _read_json(fs[path]))
    /\ UNCHANGED <<fs, write_locks, req, next_id, uploads, faults, csv, query,
                   export, _initialized>>

\* aiofiles.open or f.read raises
ReadJsonFail(path) ==
    /\ store_call.n < MaxStoreCalls
    /\ fs[path].exists
    /\ fs[path].kind \notin {"empty", "huge"}
    /\ faults < MaxFaults
    /\ faults' = faults + 1
    /\ store_call' = Called("_read_json", path, store_call.n + 1,
                            StorageException("Failed to read"))
    /\ UNCHANGED <<fs, write_locks, req, next_id, uploads, csv, query, export,
                   _initialized>>

NextStore ==
    \/ Initialize
    \/ \E path \in RealPaths :
         \/ InitializeFail(path)
         \/ ReadJson(path)
         \/ ReadJsonFail(path)

SpecStore == InitStore /\ [][NextStore]_vars

(***************************************************************************)
(* Properties.                                                             *)
(***************************************************************************)
Done(p) == req[p].pc = "done"
Succeeded(p) == Done(p) /\ req[p].resp.kind = "htmx" /\ req[p].resp.success

\* the step in which task p's _write_json replaces `path` and returns
Replaces(p, path) ==
    /\ req[p].pc = "w_replace"
    /\ req[p].path = path
    /\ req'[p].pc # "w_replace"
    /\ fs'[TempPath(path)] = Absent
    /\ write_locks[LockKey(path)] = p
    /\ req'[p].stages # req[p].stages \o <<"Rejected">>

\* the problems a response reports: the detail of an HTTP 400, or the errors
\* of the rendered response
Problems(resp) ==
    IF resp.kind = "http400"
        THEN (IF resp.message = "" THEN <<>> ELSE <<resp.message>>)
        ELSE resp.errors

Slugs(pages) == {pages[k].slug : k \in 1..Len(pages)}

\* C1: an upload that succeeds has invoked record_change (log_change) once
\* for every parsed record, unchanged rows included, so that N parsed records
\* append N audit entries.
C1_OneAuditCallPerRow ==
    \A p \in Procs : Succeeded(p) => req[p].calls = req[p].resp.processed

\* C2: the step that completes a successful upload leaves the page file
\* holding exactly the records parsed from the uploaded file, so that every
\* stored record whose slug is not in the file is gone.
C2_FullOverwrite ==
    [][\A p \in Procs :
          Replaces(p, pages_path) =>
            /\ fs'[pages_path] = Content(parse_csv(req[p].file).pages)
            /\ \A k \in 1..Len(fs[pages_path].data) :
                 fs[pages_path].data[k].slug
                        \notin Slugs(parse_csv(req[p].file).pages)
                    => fs[pages_path].data[k].slug
                        \notin Slugs(fs'[pages_path].data)]_vars

\* a successful upload of FileA has replaced the two records of FileAB
C2_Witness ==
    \E p \in Procs :
        /\ Succeeded(p)
        /\ req[p].file = FileA
        /\ fs[pages_path] = Content(parse_csv(FileA).pages)
        /\ Sb \in Slugs(fs[BackupPath(pages_path)].data)

\* the four rejected-file scenarios of the spec
RejectedScenario(f) ==
    \/ ~f.csv_name
    \/ f.kind = "empty"
    \/ "meta_description" \notin f.headers
    \/ Len(f.rows) = MAX_ROWS + 1

\* the step in which task p receives an upload
Starts(p) ==
    /\ uploads' = uploads + 1
    /\ req[p].pc \in {"idle", "done"}
    /\ \A q \in Procs : q < p => req[q].pc \notin {"idle", "done"}

\* C3: an upload of a file without the .csv extension, of an empty file, of
\* a file without the meta_description column or of a file with one row more
\* than the maximum ends rejected with a non-empty problem list and leaves
\* the stored page collection as it was.
C3_RejectedFilesLeaveStore ==
    [][\A p \in Procs :
          Starts(p) /\ RejectedScenario(req'[p].file) =>
            /\ Done(p)'
            /\ ~req'[p].resp.success
            /\ Problems(req'[p].resp) # <<>>
            /\ fs' = fs]_vars

\* a file with one row too many was rejected while the store held records
C3_Witness ==
    \E p \in Procs :
        /\ Done(p)
        /\ Len(req[p].file.rows) = MAX_ROWS + 1
        /\ req[p].resp.errors = <<"Too many rows">>
        /\ fs[pages_path].data # <<>>

\* C4: when the pages an upload loaded are the records of its own file (the
\* same file was uploaded just before) and nothing wrote the page file in
\* between, it is acknowledged with added = 0, updated = 0, unchanged = N and
\* leaves the page collection's slugs, titles and descriptions as they were.
C4_SecondPassUnchanged ==
    [][\A p \in Procs :
          /\ Replaces(p, pages_path)
          /\ req[p].existing = parse_csv(req[p].file).pages
          /\ fs[pages_path].data = req[p].existing
          => /\ req'[p].resp.success
             /\ req'[p].resp.added = 0
             /\ req'[p].resp.updated = 0
             /\ req'[p].resp.unchanged = Len(parse_csv(req[p].file).pages)
             /\ fs'[pages_path].data = fs[pages_path].data]_vars

\* the two-record file was acknowledged with two unchanged records
C4_Witness ==
    \E p \in Procs :
        /\ Succeeded(p)
        /\ req[p].file = FileAB
        /\ req[p].resp.added = 0 /\ req[p].resp.updated = 0
        /\ req[p].resp.unchanged = 2

\* C5: the audit file never holds more than MAX_AUDIT_RECORDS entries; the
\* replace of an append leaves the new entry last, and when the append read
\* a full list it leaves that list without its oldest entry, in order,
\* followed by the new entry.
C5_AuditRotation ==
    [][/\ Len(fs'[audit_path].data) <= MAX_AUDIT_RECORDS
       /\ \A p \in Procs :
            Replaces(p, audit_path) =>
              LET new == fs'[audit_path].data IN
              /\ new # <<>>
              /\ new[Len(new)] = req[p].audit
              /\ Len(req[p].logs) = MAX_AUDIT_RECORDS =>
                    /\ Len(new) = MAX_AUDIT_RECORDS
                    /\ new = Tail(req[p].logs) \o <<req[p].audit>>]_vars

\* the audit file is full, its oldest entry has been dropped and the newest
\* is last
C5_Witness ==
    LET logs == fs[audit_path].data IN
    /\ Len(logs) = MAX_AUDIT_RECORDS
    /\ logs[1].id = 2
    /\ logs[Len(logs)].id = MAX_AUDIT_RECORDS + 1

C7_SlugsUniqueLowercase ==
    LET pages == fs[pages_path].data IN
    /\ \A j, k \in 1..Len(pages) : j # k => pages[j].slug # pages[k].slug
    /\ \A k \in 1..Len(pages) :
         /\ Lower(pages[k].slug) = pages[k].slug
         /\ StartsWithSlash(pages[k].slug)

\* the file with the upper-case slug "/A" has been stored as two records
C7_Witness ==
    /\ \E p \in Procs : Succeeded(p) /\ req[p].file = FileAB
    /\ Len(fs[pages_path].data) = 2
    /\ fs[pages_path].data[1].slug = Sa

\* C8: whatever step is taken (temporary file written, verified, backup
\* written, a failure at any of them), the file at a collection's real path
\* changes only in the replace that ends a write, and then from the complete
\* old content to the complete data of that write, which is what the
\* temporary file held; a read of the real path gets one or the other.
C8_AtomicReplace ==
    [][\A path \in RealPaths :
          /\ fs'[path].exists
          /\ fs'[path] # fs[path] =>
               \E p \in Procs :
                 /\ Replaces(p, path)
                 /\ fs[TempPath(path)] = Content(req[p].data)
                 /\ fs'[path] = Content(req[p].data)]_vars

\* a page write stands before its replace: the temporary file holds the new
\* records, the backup the old ones, the real path still the old ones
C8_Witness ==
    \E p \in Procs :
        /\ req[p].pc = "w_replace"
        /\ req[p].path = pages_path
        /\ fs[TempPath(pages_path)] = Content(req[p].data)
        /\ fs[pages_path] # Content(req[p].data)
        /\ fs[pages_path].data # <<>>
        /\ fs[BackupPath(pages_path)] = fs[pages_path]

\* task p is inside the temp-write/verify/backup/replace section for path
InWrite(p, path) ==
    /\ req[p].pc \in {"w_temp", "w_verify", "w_backup", "w_replace"}
    /\ req[p].path = path

\* C9: at most one task is inside the write section of a collection, and it
\* holds that collection's lock; the two collections have different locks.
C9_OneWriterPerCollection ==
    /\ \A path \in RealPaths :
         /\ Cardinality({p \in Procs : InWrite(p, path)}) <= 1
         /\ \A p \in Procs : InWrite(p, path) => write_locks[LockKey(path)] = p
    /\ LockKey(pages_path) # LockKey(audit_path)

\* one task is writing the page file while another is writing the audit file
C9_Witness ==
    \E p, q \in Procs :
        /\ p # q
        /\ InWrite(p, pages_path) /\ req[p].pc = "w_backup"
        /\ InWrite(q, audit_path) /\ req[q].pc = "w_backup"

FullStages ==
    <<"Received", "Validated", "Parsed", "DiffedLogged", "Persisted", "Acknowledged">>

IsPrefix(s, t) == Len(s) <= Len(t) /\ s = SubSeq(t, 1, Len(s))

\* the stages in order, possibly cut short by Rejected
StagesInOrder(s) ==
    \/ IsPrefix(s, FullStages)
    \/ /\ Len(s) >= 2
       /\ s[Len(s)] = "Rejected"
       /\ IsPrefix(SubSeq(s, 1, Len(s) - 1), FullStages)
       /\ Len(s) - 1 <= 4

\* C10: a call goes through Received, Validated, Parsed, Diffed&Logged,
\* Persisted, Acknowledged in this order, or leaves for Rejected; an audit
\* entry is appended or the page file replaced only for a file that passed
\* validate and parse; the page file is replaced only when the loop over the
\* parsed records is over; success is answered only in the step that
\* replaces the page file.
C10_StagesInOrder ==
    [][\A p \in Procs :
          /\ StagesInOrder(req'[p].stages)
          /\ req[p].pc \notin {"idle", "done"} =>
                IsPrefix(req[p].stages, req'[p].stages)
          /\ \A path \in RealPaths :
                Replaces(p, path) =>
                  /\ validate_csv_file(req[p].file).ok
                  /\ parse_csv(req[p].file).ok
                  /\ IsPrefix(<<"Received", "Validated", "Parsed">>, req[p].stages)
          /\ Replaces(p, pages_path) =>
                /\ req[p].new_pages = parse_csv(req[p].file).pages
                /\ req[p].i > Len(req[p].new_pages)
          /\ req'[p].resp.success /\ req'[p] # req[p] =>
                /\ Replaces(p, pages_path)
                /\ fs'[pages_path] = Content(req[p].data)
                /\ req'[p].stages = FullStages]_vars

\* an upload with two audit entries has been acknowledged
C10_Witness ==
    \E p \in Procs :
        /\ Succeeded(p)
        /\ req[p].stages = FullStages
        /\ req[p].calls = 2

\* the step in which a storage call of task p raises and upload_csv answers
Fails(p) ==
    /\ req[p].pc \notin {"idle", "done"}
    /\ req'[p].pc = "done"
    /\ req'[p].stages = req[p].stages \o <<"Rejected">>

\* task p is inside log_change (append_audit_log and its _write_json)
InLogChange(p) ==
    \/ req[p].pc = "a_read"
    \/ req[p].pc \in {"w_lock", "w_temp", "w_verify", "w_backup", "w_replace"}
         /\ req[p].path = audit_path

\* C11 as claimed: a call that ends after the file was parsed without
\* being acknowledged (a storage call of steps 4-6 failed) ends in an HTTP
\* 500 error, and a response that carries a structured rejection comes from
\* steps 1-3 only.
C11_StorageFailureIsFatal ==
    \A p \in Procs :
        Done(p) /\ ~Succeeded(p)
                /\ IsPrefix(<<"Received", "Validated", "Parsed">>, req[p].stages)
            => req[p].resp.kind = "http500"

\* C12: the step in which log_change fails ends the call: it is answered
\* without success, the loop index and the number of log_change calls stay
\* where they were, the page file is not touched and was not replaced by
\* this call before, and no later step of the call exists.
C12_AuditFailureAborts ==
    [][\A p \in Procs :
          /\ InLogChange(p) /\ req'[p] # req[p] /\ req'[p].pc \in {"diff", "done"}
               /\ ~Replaces(p, audit_path)
               => /\ Fails(p)
                  /\ ~req'[p].resp.success
                  /\ req'[p].resp.kind = "htmx"
                  /\ req'[p].calls <= req[p].calls
                  /\ "Persisted" \notin {req'[p].stages[k] : k \in 1..Len(req'[p].stages)}
                  /\ fs'[pages_path] = fs[pages_path]
          /\ Done(p) /\ ~Succeeded(p) /\ uploads' = uploads
               => req'[p] = req[p]]_vars

\* an upload whose audit append failed has ended without success while the
\* page file still holds the records of the upload before it
C12_Witness ==
    \E p \in Procs :
        /\ Done(p)
        /\ ~req[p].resp.success
        /\ req[p].resp.message = "Failed to write audit log"
        /\ fs[pages_path].data # <<>>
        /\ fs[pages_path].data # parse_csv(req[p].file).pages

\* the indices of the parsed records with property P against the loaded ones
AddedRows(news, ex) ==
    {k \in 1..Len(news) : \A j \in 1..Len(ex) : ex[j].slug # news[k].slug}
UpdatedRows(news, ex) ==
    {k \in 1..Len(news) :
        \E j \in 1..Len(ex) :
            /\ ex[j].slug = news[k].slug
            /\ \/ ex[j].title # news[k].title
               \/ ex[j].meta_description # news[k].meta_description}
UnchangedRows(news, ex) ==
    {k \in 1..Len(news) :
        \E j \in 1..Len(ex) :
            /\ ex[j].slug = news[k].slug
            /\ ex[j].title = news[k].title
            /\ ex[j].meta_description = news[k].meta_description}

\* C13: the acknowledgment of a successful upload counts as added the parsed
\* slugs absent from the loaded pages, as updated those present with another
\* title or description, as unchanged those present with the same ones; the
\* three add up to processed, the number of parsed records.
C13_CountsAddUp ==
    [][\A p \in Procs :
          Replaces(p, pages_path) =>
            LET news == parse_csv(req[p].file).pages
                ex   == req[p].existing
                resp == req'[p].resp
            IN  /\ resp.success
                /\ resp.processed = Len(news)
                /\ resp.added = Cardinality(AddedRows(news, ex))
                /\ resp.updated = Cardinality(UpdatedRows(news, ex))
                /\ resp.unchanged = Cardinality(UnchangedRows(news, ex))
                /\ resp.added + resp.updated + resp.unchanged = resp.processed]_vars

\* the one-row file uploaded to the empty store: one entry with no old
\* title, acknowledged with added = 1, updated = 0, unchanged = 0
C13_Witness ==
    \E p \in Procs :
        /\ Succeeded(p)
        /\ req[p].file = FileA
        /\ uploads = 1
        /\ req[p].resp.added = 1 /\ req[p].resp.updated = 0
        /\ req[p].resp.unchanged = 0 /\ req[p].resp.processed = 1
        /\ Len(fs[audit_path].data) = 1
        /\ fs[audit_path].data[1].old_title = None
        /\ fs[audit_path].data[1].new_title = "Hello"

\* the stripped slug cell of a row
SlugCell(row) == Strip(row.slug)

\* the number of characters of the cell under `key`
CellLen(row, key) == IF key = "slug" THEN Len(row.slug) ELSE FieldLen(row[key])

\* the contents validate has to turn down, as the spec lists them
BadContent(f) ==
    \/ f.kind = "empty"
    \/ f.too_large
    \/ REQUIRED_HEADERS \ f.headers # {}
    \/ Len(f.rows) > MAX_ROWS
    \/ \E k \in 1..Len(f.rows) :
         \/ SlugCell(f.rows[k]) = <<>>
         \/ ~SLUG_PATTERN(SlugCell(f.rows[k]))
         \/ Contains2(SlugCell(f.rows[k]), ".", ".")
         \/ Contains2(SlugCell(f.rows[k]), "/", "/")
         \/ \E j \in 1..(k - 1) :
              /\ SlugCell(f.rows[j]) # <<>>
              /\ Lower(SlugCell(f.rows[j])) = Lower(SlugCell(f.rows[k]))
         \/ \E key \in DOMAIN f.rows[k] : CellLen(f.rows[k], key) > MAX_FIELD_LENGTH

\* C17 as claimed: validate returns (ok, problems) whatever the content, and
\* returns ok = false with at least one problem for an empty or oversized
\* content, a missing required header, a row with an empty, malformed,
\* '..'/'//' or repeated slug, too many rows, or a cell of more than 1000
\* characters.
C17_ValidateRejects ==
    csv.pc = "validated" =>
        /\ csv.valid.ok \in BOOLEAN
        /\ BadContent(csv.file) => ~csv.valid.ok /\ csv.valid.errors # <<>>

\* the slug of row k as parse compares it
Norm(rows, k) == Lower(SlugCell(rows[k]))

\* the rows that are the first of their slug
FirstRows(rows) ==
    {k \in 1..Len(rows) :
        /\ SlugCell(rows[k]) # <<>>
        /\ \A j \in 1..(k - 1) :
             SlugCell(rows[j]) = <<>> \/ Norm(rows, j) # Norm(rows, k)}

\* C19: when parse returns, it returns one record for every slug of the
\* content, compared case-insensitively: the record of the first row with
\* that slug, with that row's title and description, in the order of these
\* first rows; the later rows with the slug leave no record and no error.
C19_FirstOccurrenceKept ==
    csv.pc = "parsed" /\ csv.parsed.ok =>
        LET rows  == csv.file.rows
            pages == csv.parsed.pages
            first == FirstRows(rows)
        IN  /\ csv.parsed.errors = <<>>
            /\ Len(pages) = Cardinality(first)
            /\ \A k \in first :
                 LET page == pages[Cardinality({j \in first : j <= k})] IN
                 /\ page.slug = Norm(rows, k)
                 /\ rows[k].title \notin {"", None} => page.title = rows[k].title
                 /\ rows[k].meta_description \notin {"", None}
                      => page.meta_description = rows[k].meta_description

\* "/a" Hello, "/A" Bye and "/b" were parsed into the records of rows 1 and 3
C19_Witness ==
    /\ csv.pc = "parsed"
    /\ csv.parsed.ok
    /\ Len(csv.file.rows) = 3
    /\ csv.file.rows[1] = Row(Sa, "Hello", "World")
    /\ csv.file.rows[2] = Row(SA, "Bye", "World")
    /\ Len(csv.parsed.pages) = 2
    /\ csv.parsed.pages[1] = PageSchema(Sa, "Hello", "World")
    /\ csv.parsed.pages[2].slug = Sb

\* the rows parse turns down: no slug, or the first row of a slug whose
\* values PageSchema does not accept
FailingRows(rows) ==
    {k \in 1..Len(rows) :
        \/ SlugCell(rows[k]) = <<>>
        \/ /\ k \in FirstRows(rows)
           /\ \/ ~StartsWithSlash(Norm(rows, k))
              \/ Contains2(Norm(rows, k), ".", ".")
              \/ Contains2(Norm(rows, k), "/", "/")
              \/ Len(Norm(rows, k)) > 500
              \/ rows[k].title # None /\ FieldLen(rows[k].title) > 200
              \/ rows[k].meta_description # None
                   /\ FieldLen(rows[k].meta_description) > 300}

WithoutExtra(f) ==
    LET known == REQUIRED_HEADERS \cup OPTIONAL_HEADERS IN
    [f EXCEPT !.headers = @ \cap known,
              !.rows = [k \in 1..Len(f.rows) |->
                          [key \in DOMAIN f.rows[k] \cap known |-> f.rows[k][key]]]]

\* f has unrecognized columns, none of their cells is over-long, and f is
\* valid without them
ExtraColumnsOnly(f) ==
    /\ f.csv_name /\ f.kind = "csv"
    /\ f.headers \ (REQUIRED_HEADERS \cup OPTIONAL_HEADERS) # {}
    /\ \A k \in 1..Len(f.rows) : \A key \in DOMAIN f.rows[k] :
          CellLen(f.rows[k], key) <= MAX_FIELD_LENGTH
    /\ validate_csv_file(WithoutExtra(f)).ok

\* C18: an upload of a file that is valid but for unrecognized extra columns
\* passes validation with warnings only, and is received, parsed and carried
\* on exactly as the file without these columns: the same parsed records,
\* the same stages, rejected only by a storage failure.
C18_ExtraColumnsPass ==
    \A p \in Procs :
        req[p].pc # "idle" /\ ExtraColumnsOnly(req[p].file) =>
            LET f == req[p].file
                v == validate_csv_file(f)
            IN  /\ v.ok
                /\ v.errors # <<>>
                /\ \A k \in 1..Len(v.errors) : v.errors[k] = WarnUnexpected
                /\ Received(f) = Received(WithoutExtra(f))
                /\ IsPrefix(<<"Received", "Validated", "Parsed">>, req[p].stages)
                /\ req[p].pc # "done" =>
                      req[p].new_pages = parse_csv(WithoutExtra(f)).pages
                /\ req[p].pc = "done" /\ faults = 0 => Succeeded(p)

\* the file with the notes column has been stored and audited as FileA is
C18_Witness ==
    \E p \in Procs :
        /\ Succeeded(p)
        /\ req[p].file = FileXtra
        /\ WithoutExtra(FileXtra) = FileA
        /\ fs[pages_path] = Content(parse_csv(FileA).pages)
        /\ Len(fs[audit_path].data) = 1
        /\ fs[audit_path].data[1].new_title = "Hello"

\* the entries of data the filters let through
Matching(data, username, slug) ==
    SelectSeq(data, LAMBDA log :
        /\ username # None => log.changed_by = username
        /\ slug # <<>> => log.slug = slug)

\* the n most recently appended entries of data, the most recent first
MostRecent(data, n) ==
    LET m == IF n < Len(data) THEN n ELSE Len(data) IN
    [k \in 1..m |-> data[Len(data) + 1 - k]]

\* C15: a query without filters and with limit >= 1 whose read succeeds
\* returns the min(limit, size) most recently appended entries of the audit
\* file, the most recent first.
C15_RecentUnfiltered ==
    /\ query.pc = "returned" /\ query.limit >= 1
    /\ query.username = None /\ query.slug = <<>>
    => query.result = MostRecent(fs[audit_path].data, query.limit)

\* a query with limit 2 on a file of three entries returned the last two
C15_Witness ==
    /\ query.pc = "returned" /\ query.limit = 2
    /\ query.username = None /\ query.slug = <<>>
    /\ Len(fs[audit_path].data) = 3
    /\ Len(query.result) = 2
    /\ query.result[1].id = 3 /\ query.result[2].id = 2

\* C16 as claimed: a query with an identity and/or slug filter and limit >= 1
\* returns the min(limit, m) most recent of all m entries of the audit file
\* that match the filters, the most recent first.
C16_RecentFiltered ==
    /\ query.pc = "returned" /\ query.limit >= 1
    /\ query.username # None \/ query.slug # <<>>
    => query.result =
         MostRecent(Matching(fs[audit_path].data, query.username, query.slug),
                    query.limit)

\* the list with one entry appended, the oldest leaving a full list
OneMore(old, entry) ==
    IF Len(old) < MAX_AUDIT_RECORDS THEN Append(old, entry)
    ELSE Append(Tail(old), entry)

\* the step in which the log_change call of task p returns: the arguments of
\* the call are still in req[p]
LogChangeReturns(p) ==
    /\ Replaces(p, audit_path)
    /\ Len(req[p].new_pages) = 1

\* the entry a log_change call has to leave last in the audit file, but for
\* its old_ fields
EntryOfCall(p, entry) ==
    /\ entry.slug = req[p].new_pages[1].slug
    /\ entry.new_title = req[p].new_pages[1].title
    /\ entry.new_meta_description = req[p].new_pages[1].meta_description
    /\ entry.changed_by = req[p].username
    /\ req[p].existing # <<>> =>
         /\ entry.old_title = req[p].existing[1].title
         /\ entry.old_meta_description = req[p].existing[1].meta_description

\* C14 as claimed: a log_change call that returns has appended exactly one
\* entry, whether the record is created, updated or unchanged; the entry has
\* the new record's fields and the identity, the old record's fields when
\* there is one, and null old_ fields exactly when there is none.
C14_OneEntryNullOldIffAbsent ==
    [][\A p \in Procs :
          LogChangeReturns(p) =>
            LET new   == fs'[audit_path].data
                entry == new[Len(new)]
            IN  /\ new = OneMore(fs[audit_path].data, entry)
                /\ EntryOfCall(p, entry)
                /\ (entry.old_title = None /\ entry.old_meta_description = None)
                      <=> req[p].existing = <<>>]_vars

\* C14, amended: a log_change call that returns has appended exactly one
\* entry, whether the record is created, updated or unchanged; the entry has
\* the new record's fields and the identity; its old_ fields are null when
\* there is no old record and are the old record's fields, which may be
\* null themselves, when there is one.
C14_OneEntryPerCall ==
    [][\A p \in Procs :
          LogChangeReturns(p) =>
            LET new   == fs'[audit_path].data
                entry == new[Len(new)]
            IN  /\ new = OneMore(fs[audit_path].data, entry)
                /\ entry = req[p].audit
                /\ EntryOfCall(p, entry)
                /\ req[p].existing = <<>> =>
                      /\ entry.old_title = None
                      /\ entry.old_meta_description = None]_vars

\* a call with an old record equal to the new one has returned and left its
\* entry, with equal old_ and new_ fields, last in the audit file
C14_Witness ==
    LET logs == fs[audit_path].data IN
    /\ req[1].pc = "diff"
    /\ req[1].existing = <<PageA>>
    /\ req[1].new_pages = <<PageA>>
    /\ logs # <<>>
    /\ logs[Len(logs)].id = next_id
    /\ logs[Len(logs)].old_title = "Hello"
    /\ logs[Len(logs)].new_title = "Hello"
    /\ logs[Len(logs)].old_meta_description = logs[Len(logs)].new_meta_description

\* a data row as the spec asks for it: a cell under every header and none
\* beyond them, a slug that matches ^/[A-Za-z0-9/_-]*$ without '..' or '//',
\* a title of at most 200 and a description of at most 300 characters, no
\* cell of more than 1000 characters
WellFormedRow(row) ==
    /\ \A key \in DOMAIN row : Truthy(key)
    /\ row.title # None /\ row.meta_description # None
    /\ SLUG_PATTERN(SlugCell(row))
    /\ ~Contains2(SlugCell(row), ".", ".")
    /\ ~Contains2(SlugCell(row), "/", "/")
    /\ FieldLen(StripField(row.title)) <= 200
    /\ FieldLen(StripField(row.meta_description)) <= 300
    /\ \A key \in DOMAIN row : CellLen(row, key) <= MAX_FIELD_LENGTH

\* a content with the required headers and 1..MAX_ROWS well-formed rows of
\* pairwise different slugs
WellFormedInput(f) ==
    /\ f.kind = "csv" /\ ~f.too_large
    /\ REQUIRED_HEADERS \subseteq f.headers
    /\ Len(f.rows) >= 1 /\ Len(f.rows) <= MAX_ROWS
    /\ \A k \in 1..Len(f.rows) : WellFormedRow(f.rows[k])
    /\ \A j, k \in 1..Len(f.rows) : j # k => Norm(f.rows, j) # Norm(f.rows, k)

\* C21 as claimed: for a content with the required headers and N >= 1
\* well-formed rows of different slugs, validate reports success and parse
\* returns N records, the k-th with the lower-cased, trimmed slug of row k.
C21_WellFormedAccepted ==
    WellFormedInput(csv.file) =>
        /\ csv.pc = "validated" => csv.valid.ok
        /\ csv.pc = "parsed" =>
             /\ csv.parsed.ok
             /\ Len(csv.parsed.pages) = Len(csv.file.rows)
             /\ \A k \in 1..Len(csv.file.rows) :
                  csv.parsed.pages[k].slug = Norm(csv.file.rows, k)

\* the records have pairwise different normalized slugs
DistinctSlugs(pages) ==
    \A j, k \in 1..Len(pages) :
        j # k => validate_slug(pages[j].slug) # validate_slug(pages[k].slug)

\* C22 as claimed: for a non-empty sequence of records with different
\* normalized slugs, parse(serialize(records)) returns as many records, in
\* the same order, each equal to the one it came from in slug, title,
\* meta_description and, up to the timestamp precision, updated_at.
C22_RoundTrip ==
    /\ export.pc = "parsed"
    /\ export.pages # <<>>
    /\ DistinctSlugs(export.pages)
    => /\ export.parsed.ok
       /\ Len(export.parsed.pages) = Len(export.pages)
       /\ \A k \in 1..Len(export.pages) :
            /\ export.parsed.pages[k].slug = export.pages[k].slug
            /\ export.parsed.pages[k].title = export.pages[k].title
            /\ export.parsed.pages[k].meta_description
                 = export.pages[k].meta_description
            /\ export.parsed.pages[k].updated_at = export.pages[k].updated_at

\* the step in which a _read_json call that met no I/O failure ends
ReadEnds ==
    /\ store_call'.op = "_read_json"
    /\ store_call'.n = store_call.n + 1
    /\ faults' = faults

\* C23: _read_json returns the empty list for a file that is absent or
\* empty, raises StorageException for a content that is not JSON or is a
\* JSON value other than a list, returns the stored list otherwise, and
\* leaves every file as it was.
C23_ReadCollection ==
    [][ReadEnds =>
          LET file == fs[store_call'.path] IN
          /\ fs' = fs
          /\ ~file.exists \/ file.kind \in {"empty", "blank"} =>
                store_call'.ok /\ store_call'.data = <<>>
          /\ file.kind \in {"garbage", "object"} =>
                ~store_call'.ok /\ store_call'.raised = "StorageException"
          /\ file.kind = "list" =>
                store_call'.ok /\ store_call'.data = file.data]_vars

\* a read of a page file that holds a JSON object has raised and the file
\* still holds the object
C23_Witness ==
    /\ store_call.op = "_read_json"
    /\ store_call.path = pages_path
    /\ ~store_call.ok
    /\ store_call.raised = "StorageException"
    /\ fs[pages_path] = Bytes("object")
    /\ faults = 0

\* the collection at path can be read: get_all_pages, get_audit_logs raise
\* nothing
Readable(files, path) ==
    LET r == _read_json(files[path]) IN
    /\ r.ok
    /\ IF path = pages_path THEN PagesValid(r.data) ELSE AuditValid(r.data)

\* the step in which an initialize call returns
InitializeReturns ==
    /\ store_call'.op = "initialize"
    /\ store_call'.n = store_call.n + 1
    /\ store_call'.ok

\* C26 as claimed: when initialize returns, both collections can be read; a
\* file that was absent holds the empty list, a file that could not be read
\* is at its backup path and the collection holds the empty list, a file
\* that could be read is as it was; a call on the initialized store changes
\* no file.
C26_InitializeRecovers ==
    [][InitializeReturns =>
          /\ _initialized'
          /\ \A path \in RealPaths :
               /\ Readable(fs', path)
               /\ ~_initialized /\ ~fs[path].exists => fs'[path] = Content(<<>>)
               /\ ~_initialized /\ fs[path].exists /\ ~Readable(fs, path) =>
                     /\ fs'[path] = Content(<<>>)
                     /\ fs'[BackupPath(path)] = fs[path]
               /\ ~_initialized /\ fs[path].exists /\ Readable(fs, path) =>
                     fs'[path] = fs[path]
          /\ _initialized => fs' = fs]_vars

\* the step in which the backup step of task p's write raises
BackupFails(p) ==
    /\ req[p].pc = "w_backup"
    /\ req'[p].backup = "failed"

\* C24: a backup step that raises leaves the write where it was, before the
\* replace; unless another step fails, the write then replaces the real
\* path with the new content and returns to a caller that goes on or
\* answers with success; and a replace that follows a backup step that
\* succeeded finds at the backup path the content the real path holds just
\* before it, and leaves it there.
C24_BackupBestEffort ==
    [][\A p \in Procs :
          /\ BackupFails(p) =>
                /\ req'[p].pc = "w_replace"
                /\ fs'[req[p].path] = fs[req[p].path]
                /\ write_locks' = write_locks
          /\ req[p].pc = "w_replace" /\ req[p].backup = "failed"
                /\ req'[p] # req[p] /\ faults' = faults =>
                /\ Replaces(p, req[p].path)
                /\ fs'[req[p].path] = Content(req[p].data)
                /\ req'[p].pc \in {"diff", "done"}
                /\ req'[p].pc = "done" => req'[p].resp.success
          /\ req[p].pc = "w_replace" /\ req[p].backup = "done"
                /\ Replaces(p, req[p].path) =>
                /\ fs[BackupPath(req[p].path)] = fs[req[p].path]
                /\ fs'[BackupPath(req[p].path)] = fs[req[p].path]]_vars

\* the only upload so far has succeeded and stored its records although one
\* backup step of its writes failed
C24_Witness ==
    \E p \in Procs :
        /\ uploads = 1
        /\ faults = 1
        /\ Succeeded(p)
        /\ fs[pages_path] = Content(parse_csv(req[p].file).pages)
        /\ fs[audit_path].data # <<>>

\* the step in which the _write_json call of save_pages raises in task p
PageWriteFails(p) ==
    /\ req[p].pc \in {"w_temp", "w_verify", "w_replace"}
    /\ req[p].path = pages_path
    /\ Fails(p)

\* C25: the step in which the page write of an upload fails ends the call
\* with a failed answer and changes neither the audit file, which keeps the
\* entries the upload appended, nor the page file, which keeps the content
\* it had; the call takes no further step.  When the upload is the first
\* one, the audit file then holds one entry for each of its log_change
\* calls and nothing else.
C25_NoCompensation ==
    [][\A p \in Procs :
          /\ PageWriteFails(p) =>
                /\ fs'[audit_path] = fs[audit_path]
                /\ fs'[pages_path] = fs[pages_path]
                /\ ~req'[p].resp.success
                /\ uploads = 1 =>
                     /\ Len(fs'[audit_path].data) = req[p].calls
                     /\ \A j \in 1..Len(fs'[audit_path].data) :
                          fs'[audit_path].data[j].slug
                              \in Slugs(req[p].new_pages)
          /\ Done(p) /\ uploads' = uploads => req'[p] = req[p]]_vars

\* the only upload so far has failed at its page write: its audit entry is
\* in the audit file, the page file is still empty
C25_Witness ==
    \E p \in Procs :
        /\ uploads = 1
        /\ Done(p)
        /\ req[p].resp.message = "Failed to write pages.json"
        /\ req[p].stages = <<"Received", "Validated", "Parsed", "DiffedLogged",
                             "Rejected">>
        /\ Len(fs[audit_path].data) = Len(parse_csv(req[p].file).pages)
        /\ fs[audit_path].data[1].slug = parse_csv(req[p].file).pages[1].slug
        /\ fs[pages_path] = Content(<<>>)


\* C27: once two uploads have both completed with every append done, and the
\* audit file never reached its capacity, the audit file holds an entry for
\* every id handed out (no append is lost).
C27_NoAppendLost ==
    (/\ \A p \in Procs : Succeeded(p)
     /\ next_id <= MAX_AUDIT_RECORDS)
        => \A n \in 1..next_id :
              \E k \in 1..Len(fs[audit_path].data) :
                  fs[audit_path].data[k].id = n

\* C27, amended: when an append_audit_log that read fewer entries than the
\* capacity replaces the audit file, the file ends with that call's new
\* entry, and an entry the file held just before the replace is still there
\* exactly when that call had read it: an entry written by another request
\* after that read is dropped.
C27_LastReplaceWins ==
    [][\A p \in Procs :
          (Replaces(p, audit_path) /\ Len(req[p].logs) < MAX_AUDIT_RECORDS) =>
              LET old  == fs[audit_path].data
                  new  == fs'[audit_path].data
                  read == req[p].logs
              IN  /\ new # <<>>
                  /\ new[Len(new)] = req[p].audit
                  /\ \A k \in 1..Len(old) :
                       (\E j \in 1..Len(new) : new[j] = old[k])
                           <=> (\E j \in 1..Len(read) : read[j] = old[k])]_vars

\* uploads of two different files have both completed, two ids were handed
\* out, and the audit file holds a single entry
C27_Witness ==
    /\ Succeeded(1) /\ Succeeded(2)
    /\ req[1].file # req[2].file
    /\ req[1].calls = 1 /\ req[2].calls = 1
    /\ Len(fs[audit_path].data) = 1
    /\ fs[audit_path].data[1].id \in {1, 2}


\* C28: once two uploads of different files have both completed
\* successfully, whatever the interleaving of their steps, the page file
\* holds the complete parsed records of one of the two files, in order: not
\* a mixture of both and not a part of one; no temporary file is left and
\* the lock is free.
C28_OneUploadWins ==
    (/\ Succeeded(1) /\ Succeeded(2)
     /\ req[1].file # req[2].file)
        => /\ fs[pages_path].exists
           /\ \E p \in Procs :
                fs[pages_path].data = parse_csv(req[p].file).pages
           /\ fs[TempPath(pages_path)] = Absent
           /\ write_locks[LockKey(pages_path)] = 0

\* the uploads of FileA2 and FileB overlapped and both succeeded; the page
\* file holds the record of FileB and not the record of FileA2
C28_Witness ==
    /\ Succeeded(1) /\ Succeeded(2)
    /\ {req[1].file, req[2].file} = {FileA2, FileB}
    /\ fs[pages_path].data = parse_csv(FileB).pages
    /\ parse_csv(FileA2).pages # parse_csv(FileB).pages


\* C29: no upload empties the page file.  A task never holds an empty list
\* in a write of the page file; an upload of the header-only file is over at
\* once, validated and then rejected by parse_csv, and never enters a
\* storage call; and while some upload has succeeded the page file holds at
\* least one record.
C29_NoEmptyUpload ==
    /\ \A p \in Procs :
         /\ (req[p].path = pages_path /\ req[p].pc \notin {"idle", "done"})
                => req[p].data # <<>>
         /\ Succeeded(p) => parse_csv(req[p].file).pages # <<>>
         /\ (req[p].file = FileHdr /\ req[p].pc # "idle")
                => /\ Done(p)
                   /\ ~req[p].resp.success
                   /\ req[p].resp.message = "No valid pages found in CSV file"
                   /\ req[p].stages = <<"Received", "Validated", "Rejected">>
                   /\ req[p].calls = 0
    /\ (\E p \in Procs : Succeeded(p))
           => fs[pages_path].data # <<>>
    /\ validate_csv_file(FileHdr).ok

\* the header-only file was uploaded after FileA had been stored: it was
\* rejected after validation and the page file still holds FileA's record
C29_Witness ==
    /\ uploads = 2
    /\ req[1].file = FileHdr
    /\ Done(1)
    /\ req[1].stages = <<"Received", "Validated", "Rejected">>
    /\ fs[pages_path].data = parse_csv(FileA).pages
    /\ fs[TempPath(pages_path)] = Absent


\* max(limit, 0)
AtMost(limit) == IF limit > 0 THEN limit ELSE 0

\* C30: for every limit, zero and negative ones included, a get_recent_logs
\* call returns at most max(limit, 0) entries, and the get_audit_logs call
\* it makes with limit * 2 returns at most max(limit * 2, 0) entries.
C30_AtMostLimit ==
    query.pc = "returned" =>
        /\ Len(query.result) <= AtMost(query.limit)
        /\ Len(query.fetched) <= AtMost(query.limit * 2)

====
